---- MODULE Spec2Model ----
(***************************************************************************)
(* Model of the SpoolBuddy display client:                                 *)
(*   - backend_client.c : the HTTP/JSON poller, the field decoder and the  *)
(*     state cache g_state with its accessors;                             *)
(*   - ui_backend.c     : the active-tray resolution and the AMS widgets   *)
(*     built by update_ams_display.                                        *)
(* Strings are sequences of one-character strings.  A cJSON item is a      *)
(* record with the fields of struct cJSON that the client reads.           *)
(***************************************************************************)
EXTENDS Integers, Sequences, FiniteSets, TLC

VARIABLES
    g_curl,        \* backend_client.c:23  TRUE iff the curl handle is non-NULL
    g_state,       \* backend_client.c:21  the state cache
    pc,            \* position of backend_poll: "init" | "parse" | "status" | "done"
    net,           \* what the network answered to the requests of the current poll
    idx,           \* position of cJSON_ArrayForEach in the printer array (1-based)
    ret,           \* return value of the last completed backend_poll
    requests,      \* endpoints requested by the current / last poll, in order
    pre,           \* what a reader could see when the current poll was entered
    obs,           \* what a reader of backend_get_state() has just seen
    objects,       \* ui: which of objects.main / left_nozzle / rught_nozzle exist
    ams,           \* ui: widgets and locals left by the last update_ams_display
    ams_static_hidden,  \* ui_backend.c:479
    display_fresh, \* TRUE iff no poll has started since the last update_ams_display
    backend_update_counter,  \* ui_backend.c:31
    previous_screen,         \* ui_backend.c:33
    needs_data_refresh,      \* ui_backend.c:35
    tick,          \* what the last call of update_backend_ui did
    call           \* an application of a pure function: name, input, result

ui_vars == <<backend_update_counter, previous_screen, needs_data_refresh, tick>>

vars == <<g_curl, g_state, pc, net, idx, ret, requests, pre, obs, objects, ams,
          ams_static_hidden, display_fresh, ui_vars, call>>

Min(a, b) == IF a < b THEN a ELSE b

(***************************************************************************)
(* cJSON items (library): type, key, valueint, valuestring, children.      *)
(***************************************************************************)
NullPtr == [type |-> "NULL", string |-> "", valueint |-> 0, valuestring |-> <<>>, child |-> <<>>]
JNum(n) == [type |-> "Number", string |-> "", valueint |-> n, valuestring |-> <<>>, child |-> <<>>]
JStr(s) == [type |-> "String", string |-> "", valueint |-> 0, valuestring |-> s, child |-> <<>>]
JNull == [type |-> "Null", string |-> "", valueint |-> 0, valuestring |-> <<>>, child |-> <<>>]
JTrue == [type |-> "True", string |-> "", valueint |-> 1, valuestring |-> <<>>, child |-> <<>>]
JFalse == [type |-> "False", string |-> "", valueint |-> 0, valuestring |-> <<>>, child |-> <<>>]
JArr(items) == [type |-> "Array", string |-> "", valueint |-> 0, valuestring |-> <<>>, child |-> items]
\* members: a sequence of <<key, item>> pairs
JObj(members) ==
    [type |-> "Object", string |-> "", valueint |-> 0, valuestring |-> <<>>,
     child |-> [i \in 1..Len(members) |-> [members[i][2] EXCEPT !.string = members[i][1]]]]

IsPtr(item) == item.type # "NULL"
cJSON_IsNull(item) == item.type = "Null"
cJSON_IsTrue(item) == item.type = "True"
cJSON_IsArray(item) == item.type = "Array"
cJSON_IsString(item) == item.type = "String"
HasValueString(item) == item.type = "String"    \* item->valuestring != NULL

cJSON_GetObjectItem(object, key) ==
    LET hits == {i \in 1..Len(object.child) : object.child[i].string = key}
    IN  IF hits = {} THEN NullPtr
        ELSE object.child[CHOOSE i \in hits : \A j \in hits : i <= j]

\* item ? item->valueint : dflt
IntOr(item, dflt) == IF IsPtr(item) THEN item.valueint ELSE dflt
\* item && !cJSON_IsNull(item) ? item->valueint : dflt
IntNotNullOr(item, dflt) == IF IsPtr(item) /\ ~cJSON_IsNull(item) THEN item.valueint ELSE dflt
\* if (item && item->valuestring) strncpy(dst, item->valuestring, sizeof(dst) - 1);
\* the modelled strings all fit their buffers, so the copy does not truncate
StrOr(item, dst) == IF IsPtr(item) /\ HasValueString(item) THEN item.valuestring ELSE dst

(***************************************************************************)
(* The records of the state cache (all-zero after memset).                 *)
(***************************************************************************)
MaxPrinters == 8
MaxAmsUnits == 8
MaxTrays == 4

ZeroTray ==
    [ams_id |-> 0, tray_id |-> 0, tray_type |-> <<>>, tray_color |-> <<>>,
     remain |-> 0, nozzle_temp_min |-> 0, nozzle_temp_max |-> 0]

ZeroUnit ==
    [id |-> 0, humidity |-> 0, temperature |-> 0, extruder |-> 0, tray_count |-> 0,
     trays |-> [i \in 0..3 |-> ZeroTray]]

ZeroPrinter ==
    [serial |-> <<>>, name |-> <<>>, connected |-> FALSE, gcode_state |-> <<>>,
     print_progress |-> 0, layer_num |-> 0, total_layer_num |-> 0,
     subtask_name |-> <<>>, remaining_time |-> 0, stg_cur |-> 0, stg_cur_name |-> <<>>,
     tray_now |-> 0, tray_now_left |-> 0, tray_now_right |-> 0, active_extruder |-> 0,
     ams_unit_count |-> 0, ams_units |-> [i \in 0..7 |-> ZeroUnit]]

ZeroState ==
    [backend_reachable |-> FALSE, printer_count |-> 0,
     printers |-> [i \in 0..7 |-> ZeroPrinter],
     device |-> [display_connected |-> FALSE]]

(***************************************************************************)
(* Field decoder.                                                          *)
(***************************************************************************)
parse_ams_tray(tray_json, tray) ==
    [tray EXCEPT
        !.ams_id = IntOr(cJSON_GetObjectItem(tray_json, "ams_id"), 0),
        !.tray_id = IntOr(cJSON_GetObjectItem(tray_json, "tray_id"), 0),
        !.tray_type = StrOr(cJSON_GetObjectItem(tray_json, "tray_type"), @),
        !.tray_color = StrOr(cJSON_GetObjectItem(tray_json, "tray_color"), @),
        !.remain = IntOr(cJSON_GetObjectItem(tray_json, "remain"), 0),
        !.nozzle_temp_min = IntOr(cJSON_GetObjectItem(tray_json, "nozzle_temp_min"), 0),
        !.nozzle_temp_max = IntOr(cJSON_GetObjectItem(tray_json, "nozzle_temp_max"), 0)]

\* faulty variant: the count is the length of the array, whatever the capacity
loop_count_uncapped(array_json, cap) ==
    IF IsPtr(array_json) /\ cJSON_IsArray(array_json) THEN Len(array_json.child) ELSE 0

\* how many elements cJSON_ArrayForEach visits before `count < cap` stops it
\* (lines 136-141 and 199-204); 0 when the key is missing or not an array
loop_count(array_json, cap) ==
    IF IsPtr(array_json) /\ cJSON_IsArray(array_json)
    THEN Min(Len(array_json.child), cap) ELSE 0

\* the loop of parse_ams_unit: the first n elements are decoded in place
parse_trays(trays_json, trays, n) ==
    [i \in DOMAIN trays |->
       IF i < n THEN parse_ams_tray(trays_json.child[i + 1], trays[i]) ELSE trays[i]]

parse_ams_unit(unit_json, unit) ==
    [unit EXCEPT
        !.id = IntOr(cJSON_GetObjectItem(unit_json, "id"), 0),
        !.humidity = IntNotNullOr(cJSON_GetObjectItem(unit_json, "humidity"), -1),
        !.temperature = IntNotNullOr(cJSON_GetObjectItem(unit_json, "temperature"), -1),
        !.extruder = IntNotNullOr(cJSON_GetObjectItem(unit_json, "extruder"), -1),
        !.tray_count = loop_count(cJSON_GetObjectItem(unit_json, "trays"), MaxTrays),
        !.trays = parse_trays(cJSON_GetObjectItem(unit_json, "trays"), @,
                              loop_count(cJSON_GetObjectItem(unit_json, "trays"), MaxTrays))]

\* the loop of parse_printer_state over "ams_units"
parse_units(units_json, units, n) ==
    [i \in DOMAIN units |->
       IF i < n THEN parse_ams_unit(units_json.child[i + 1], units[i]) ELSE units[i]]

parse_printer_state(state_json, printer) ==
    LET stg_name == cJSON_GetObjectItem(state_json, "stg_cur_name")
    IN  [printer EXCEPT
            !.gcode_state = StrOr(cJSON_GetObjectItem(state_json, "gcode_state"), @),
            !.print_progress =
                IntNotNullOr(cJSON_GetObjectItem(state_json, "print_progress"), 0),
            !.layer_num = IntNotNullOr(cJSON_GetObjectItem(state_json, "layer_num"), 0),
            !.total_layer_num =
                IntNotNullOr(cJSON_GetObjectItem(state_json, "total_layer_num"), 0),
            !.subtask_name = StrOr(cJSON_GetObjectItem(state_json, "subtask_name"), @),
            !.remaining_time =
                IntNotNullOr(cJSON_GetObjectItem(state_json, "mc_remaining_time"), 0),
            !.stg_cur = IntNotNullOr(cJSON_GetObjectItem(state_json, "stg_cur"), -1),
            !.stg_cur_name =
                IF IsPtr(stg_name) /\ cJSON_IsString(stg_name) /\ HasValueString(stg_name)
                THEN stg_name.valuestring ELSE <<>>,
            !.tray_now = IntNotNullOr(cJSON_GetObjectItem(state_json, "tray_now"), -1),
            !.tray_now_left =
                IntNotNullOr(cJSON_GetObjectItem(state_json, "tray_now_left"), -1),
            !.tray_now_right =
                IntNotNullOr(cJSON_GetObjectItem(state_json, "tray_now_right"), -1),
            !.active_extruder =
                IntNotNullOr(cJSON_GetObjectItem(state_json, "active_extruder"), -1),
            !.ams_unit_count =
                loop_count(cJSON_GetObjectItem(state_json, "ams_units"), MaxAmsUnits),
            !.ams_units =
                parse_units(cJSON_GetObjectItem(state_json, "ams_units"), @,
                            loop_count(cJSON_GetObjectItem(state_json, "ams_units"),
                                       MaxAmsUnits))]

\* faulty variant: the record is decoded over what the slot held
memset_printer_skipped(printer) == printer

\* memset(printer, 0, sizeof(*printer))
memset_printer(printer) == ZeroPrinter

\* one iteration of the loop of backend_poll (lines 270-288), without the count++
parse_printer(printer_json, printer) ==
    LET connected == cJSON_GetObjectItem(printer_json, "connected")
        p0 == memset_printer(printer)
        p1 == [p0 EXCEPT
                 !.serial = StrOr(cJSON_GetObjectItem(printer_json, "serial"), @),
                 !.name = StrOr(cJSON_GetObjectItem(printer_json, "name"), @),
                 !.connected = IF IsPtr(connected) THEN cJSON_IsTrue(connected) ELSE FALSE]
    IN  parse_printer_state(printer_json, p1)

(***************************************************************************)
(* Transport.  A fetch outcome is what curl and the server produced:       *)
(* res (CURLcode), http (status code), parsable (cJSON_Parse succeeds),    *)
(* json (the parsed body).                                                 *)
(***************************************************************************)
Outcome(res, http, parsable, json) ==
    [res |-> res, http |-> http, parsable |-> parsable, json |-> json]

NotIssued == Outcome("NOT_ISSUED", 0, FALSE, NullPtr)

fetch_json(out) ==
    IF ~g_curl THEN NullPtr
    ELSE IF out.res # "CURLE_OK" THEN NullPtr
    ELSE IF out.parsable THEN out.json ELSE NullPtr

\* 0 on success, -1 on failure
backend_send_heartbeat(out) == IF IsPtr(fetch_json(out)) THEN 0 ELSE -1


(***************************************************************************)
(* backend_poll, in the steps a concurrent reader can tell apart.          *)
(***************************************************************************)
NoNet == [hb |-> NotIssued, printers |-> NotIssued, status |-> NotIssued]

\* what a reader sees of the cache: the flag, the count, the records within the count
View(st) ==
    [backend_reachable |-> st.backend_reachable,
     printer_count |-> st.printer_count,
     printers |-> [i \in 0..(st.printer_count - 1) |-> st.printers[i]]]

NoObs == [seen |-> FALSE, view |-> View(ZeroState)]

\* the loop condition of lines 265-268: another printer is decoded
LoopContinues(json, i, count) ==
    cJSON_IsArray(json) /\ i <= Len(json.child) /\ count < MaxPrinters

\* faulty variant: the failure path also drops the stored printers
poll_fetch_failed_clears(st) ==
    [st EXCEPT !.backend_reachable = FALSE, !.printer_count = 0]

\* lines 256-259: the printer list could not be fetched
poll_fetch_failed(st) == [st EXCEPT !.backend_reachable = FALSE]

\* faulty variant: the new list is appended to the stored one
poll_reset_keeps_count(st) == [st EXCEPT !.backend_reachable = TRUE]

\* lines 261-262: the printer list was fetched
poll_reset(st) == [st EXCEPT !.backend_reachable = TRUE, !.printer_count = 0]

\* faulty variant: a failed status request reports the display as disconnected
poll_status_failure_clears(st, json) ==
    LET item == cJSON_GetObjectItem(json, "connected") IN
    [st EXCEPT !.device.display_connected =
        IF IsPtr(json) /\ IsPtr(item) THEN cJSON_IsTrue(item) ELSE FALSE]

\* lines 298-303: the answer to the device status request; json is NULL on failure
poll_status(st, json) ==
    LET item == cJSON_GetObjectItem(json, "connected") IN
    IF IsPtr(json)
    THEN [st EXCEPT !.device.display_connected =
             IF IsPtr(item) THEN cJSON_IsTrue(item) ELSE FALSE]
    ELSE st

\* lines 249-262: heartbeat, fetch of the printer list, failure return or reset
PollBegin(HbOutcomes, PrinterOutcomes) ==
    /\ pc \in {"init", "done"}
    /\ ~obs.seen
    /\ \E hb \in HbOutcomes, pr \in PrinterOutcomes :
         LET json == fetch_json(pr) IN
         /\ net' = [hb |-> hb, printers |-> pr, status |-> NotIssued]
         /\ requests' = <<"heartbeat", "printers">>
         /\ idx' = 1
         /\ IF ~IsPtr(json)
            THEN /\ g_state' = poll_fetch_failed(g_state)
                 /\ ret' = -1
                 /\ pc' = "done"
                 /\ pre' = View(ZeroState)
            ELSE /\ g_state' = poll_reset(g_state)
                 /\ ret' = ret
                 /\ pc' = "parse"
                 /\ pre' = View(g_state)
    /\ display_fresh' = FALSE
    /\ UNCHANGED <<ui_vars, call, g_curl, obs, objects, ams, ams_static_hidden>>

\* lines 270-290: the printer at position i of the array is decoded into the next slot
poll_parse_one(st, json, i) ==
    LET n == st.printer_count IN
    [st EXCEPT !.printers = [k \in DOMAIN @ |->
                               IF k = n THEN parse_printer(json.child[i], @[k]) ELSE @[k]],
               !.printer_count = n + 1]

\* lines 267-291: one iteration of the loop over the printer array
PollParse ==
    /\ pc = "parse"
    /\ ~obs.seen
    /\ LoopContinues(fetch_json(net.printers), idx, g_state.printer_count)
    /\ g_state' = poll_parse_one(g_state, fetch_json(net.printers), idx)
    /\ idx' = idx + 1
    /\ UNCHANGED <<ui_vars, call, g_curl, pc, net, ret, requests, pre, obs, objects, ams,
                   ams_static_hidden, display_fresh>>

\* lines 294-305: the loop is over; device status request and return 0
PollStatus(StatusOutcomes) ==
    /\ pc = "parse"
    /\ ~obs.seen
    /\ ~LoopContinues(fetch_json(net.printers), idx, g_state.printer_count)
    /\ \E so \in StatusOutcomes :
         /\ net' = [net EXCEPT !.status = so]
         /\ g_state' = poll_status(g_state, fetch_json(so))
    /\ requests' = Append(requests, "status")
    /\ ret' = 0
    /\ pc' = "done"
    /\ pre' = View(ZeroState)
    /\ idx' = 1
    /\ UNCHANGED <<ui_vars, call, g_curl, obs, objects, ams, ams_static_hidden, display_fresh>>

RECURSIVE poll_parse_loop(_, _, _)
\* lines 265-292: the whole loop
poll_parse_loop(st, json, i) ==
    IF LoopContinues(json, i, st.printer_count)
    THEN poll_parse_loop(poll_parse_one(st, json, i), json, i + 1)
    ELSE st

\* lines 247-306: backend_poll run to completion; hb, pr and so are the answers
\* to its three requests
backend_poll(st, hb, pr, so) ==
    LET json == fetch_json(pr) IN
    IF ~IsPtr(json)
    THEN [ret |-> -1, state |-> poll_fetch_failed(st),
          net |-> [hb |-> hb, printers |-> pr, status |-> NotIssued],
          requests |-> <<"heartbeat", "printers">>]
    ELSE [ret |-> 0,
          state |-> poll_status(poll_parse_loop(poll_reset(st), json, 1), fetch_json(so)),
          net |-> [hb |-> hb, printers |-> pr, status |-> so],
          requests |-> <<"heartbeat", "printers", "status">>]

\* backend_poll called from the loop that also runs the display: no reader runs
\* before it returns
BackendPoll(HbOutcomes, PrinterOutcomes, StatusOutcomes) ==
    /\ pc \in {"init", "done"}
    /\ ~obs.seen
    /\ \E hb \in HbOutcomes, pr \in PrinterOutcomes, so \in StatusOutcomes :
         \E r \in {backend_poll(g_state, hb, pr, so)} :
         /\ g_state' = r.state
         /\ ret' = r.ret
         /\ net' = r.net
         /\ requests' = r.requests
    /\ pc' = "done"
    /\ display_fresh' = FALSE
    /\ UNCHANGED <<ui_vars, call, g_curl, idx, pre, obs, objects, ams, ams_static_hidden>>

\* lines 308-310: a reader takes the handle and reads the cache through it
ReadState ==
    /\ ~obs.seen
    /\ obs' = [seen |-> TRUE, view |-> View(g_state)]
    /\ UNCHANGED <<ui_vars, call, g_curl, g_state, pc, net, idx, ret, requests, pre, objects, ams,
                   ams_static_hidden, display_fresh>>

\* the reader is done with what it read
ReaderReturn ==
    /\ obs.seen
    /\ obs' = NoObs
    /\ UNCHANGED <<ui_vars, call, g_curl, g_state, pc, net, idx, ret, requests, pre, objects, ams,
                   ams_static_hidden, display_fresh>>

(***************************************************************************)
(* Accessors.                                                              *)
(***************************************************************************)
\* index of the record returned, -1 for NULL
backend_get_printer_by_serial(serial) ==
    LET hits == {i \in 0..(g_state.printer_count - 1) : g_state.printers[i].serial = serial}
    IN  IF hits = {} THEN -1 ELSE CHOOSE i \in hits : \A j \in hits : i <= j

backend_get_status ==
    IF g_state.backend_reachable
    THEN [state |-> 2, printer_count |-> g_state.printer_count]
    ELSE [state |-> 0, printer_count |-> 0]

\* rc and the fields written to *info (untouched: not written)
backend_get_printer(index) ==
    IF index < 0 \/ index >= g_state.printer_count
    THEN [rc |-> -1, written |-> FALSE, info |-> ZeroPrinter]
    ELSE [rc |-> 0, written |-> TRUE, info |-> g_state.printers[index]]

backend_get_ams_count(printer_index) ==
    IF printer_index < 0 \/ printer_index >= g_state.printer_count THEN 0
    ELSE g_state.printers[printer_index].ams_unit_count

\* faulty variant: the index is checked against the capacity of the array
backend_get_tray_now_capacity(printer_index) ==
    IF printer_index < 0 \/ printer_index >= MaxPrinters THEN -1
    ELSE g_state.printers[printer_index].tray_now

backend_get_tray_now(printer_index) ==
    IF printer_index < 0 \/ printer_index >= g_state.printer_count THEN -1
    ELSE g_state.printers[printer_index].tray_now

backend_get_tray_now_left(printer_index) ==
    IF printer_index < 0 \/ printer_index >= g_state.printer_count THEN -1
    ELSE g_state.printers[printer_index].tray_now_left

backend_get_tray_now_right(printer_index) ==
    IF printer_index < 0 \/ printer_index >= g_state.printer_count THEN -1
    ELSE g_state.printers[printer_index].tray_now_right

backend_get_active_extruder(printer_index) ==
    IF printer_index < 0 \/ printer_index >= g_state.printer_count THEN -1
    ELSE g_state.printers[printer_index].active_extruder


(***************************************************************************)
(* Firmware-compatible accessor of one AMS unit, with the color decoder.   *)
(***************************************************************************)
HexChars == <<"0", "1", "2", "3", "4", "5", "6", "7", "8", "9">>
HexLower == <<"a", "b", "c", "d", "e", "f">>
HexUpper == <<"A", "B", "C", "D", "E", "F">>

\* lines 416-419: the value of a hex digit, 0 for any other character
HexDigit(c) ==
    IF \E d \in 1..10 : HexChars[d] = c THEN (CHOOSE d \in 1..10 : HexChars[d] = c) - 1
    ELSE IF \E d \in 1..6 : HexLower[d] = c THEN (CHOOSE d \in 1..6 : HexLower[d] = c) + 9
    ELSE IF \E d \in 1..6 : HexUpper[d] = c THEN (CHOOSE d \in 1..6 : HexUpper[d] = c) + 9
    ELSE 0

\* a uint32_t as its eight hex digits, most significant first
Zero32 == <<0, 0, 0, 0, 0, 0, 0, 0>>
\* (color << 4) | digit, in 32 bits
Shl4Or(color, digit) == Tail(color) \o <<digit>>
\* (color << 8) | 0xFF, in 32 bits
Shl8OrFF(color) == SubSeq(color, 3, 8) \o <<15, 15>>

RECURSIVE HexLoop(_, _, _)
\* lines 414-421: for (i = 0; i < len && i < 8; i++) color = (color << 4) | digit
HexLoop(hex, i, color) ==
    IF i <= Len(hex) /\ i <= 8
    THEN HexLoop(hex, i + 1, Shl4Or(color, HexDigit(hex[i])))
    ELSE color

\* faulty variant: six digits are returned without the alpha byte
parse_hex_color_rgba_no_alpha(str) ==
    IF Len(str) = 0 THEN Zero32
    ELSE HexLoop(IF str[1] = "#" THEN Tail(str) ELSE str, 1, Zero32)

\* lines 409-425
parse_hex_color_rgba(str) ==
    IF Len(str) = 0 THEN Zero32
    ELSE LET hex == IF str[1] = "#" THEN Tail(str) ELSE str
             color == HexLoop(hex, 1, Zero32)
         IN  IF Len(hex) = 6 THEN Shl8OrFF(color) ELSE color

ZeroTrayInfo == [tray_type |-> <<>>, tray_color |-> Zero32, remain |-> 0]

ZeroUnitInfo ==
    [id |-> 0, humidity |-> 0, temperature |-> 0, extruder |-> 0, tray_count |-> 0,
     trays |-> [i \in 0..3 |-> ZeroTrayInfo]]

backend_get_ams_unit(printer_index, ams_index) ==
    IF printer_index < 0 \/ printer_index >= g_state.printer_count
    THEN [rc |-> -1, written |-> FALSE, info |-> ZeroUnitInfo]
    ELSE LET printer == g_state.printers[printer_index] IN
         IF ams_index < 0 \/ ams_index >= printer.ams_unit_count
         THEN [rc |-> -1, written |-> FALSE, info |-> ZeroUnitInfo]
         ELSE LET src == printer.ams_units[ams_index] IN
              [rc |-> 0, written |-> TRUE,
               info |-> [id |-> src.id,
                         humidity |-> src.humidity,
                         temperature |-> src.temperature * 10,
                         extruder |-> src.extruder,
                         tray_count |-> src.tray_count,
                         trays |-> [i \in 0..3 |->
                             IF i < src.tray_count
                             THEN [tray_type |-> src.trays[i].tray_type,
                                   tray_color |-> parse_hex_color_rgba(src.trays[i].tray_color),
                                   remain |-> src.trays[i].remain]
                             ELSE ZeroTrayInfo]]]

(***************************************************************************)
(* ui_backend.c: the dynamic AMS display.                                  *)
(***************************************************************************)
MAX_AMS_WIDGETS == 8
CONTAINER_4SLOT_W == 120
CONTAINER_1SLOT_W == 56
ROW_TOP_Y == -2
ROW_BOTTOM_Y == 50
CONTAINER_START_X == -16
CONTAINER_4SLOT_GAP == 7
CONTAINER_1SLOT_GAP == 8

get_ams_unit_name(id) ==
    IF id >= 0 /\ id <= 3 THEN <<"A", "B", "C", "D">>[id + 1]
    ELSE IF id >= 128 /\ id <= 135
         THEN "HT-" \o <<"A", "B", "C", "D", "E", "F", "G", "H">>[id - 127]
    ELSE IF id = 254 THEN "Ext-R"
    ELSE IF id = 255 THEN "Ext-L"
    ELSE "?"

\* faulty variant: the slot is left out of the index of a standard unit
get_global_tray_index_no_slot(ams_id, tray_idx) ==
    IF ams_id >= 0 /\ ams_id <= 3 THEN ams_id * 4
    ELSE IF ams_id >= 128 /\ ams_id <= 135 THEN 64 + (ams_id - 128)
    ELSE IF ams_id = 254 \/ ams_id = 255 THEN ams_id
    ELSE -1

\* faulty variant: the high-temperature units start at index 8
get_global_tray_index_ht_base(ams_id, tray_idx) ==
    IF ams_id >= 0 /\ ams_id <= 3 THEN ams_id * 4 + tray_idx
    ELSE IF ams_id >= 128 /\ ams_id <= 135 THEN 8 + (ams_id - 128)
    ELSE IF ams_id = 254 \/ ams_id = 255 THEN ams_id
    ELSE -1

\* lines 520-529
get_global_tray_index(ams_id, tray_idx) ==
    IF ams_id >= 0 /\ ams_id <= 3 THEN ams_id * 4 + tray_idx
    ELSE IF ams_id >= 128 /\ ams_id <= 135 THEN 64 + (ams_id - 128)
    ELSE IF ams_id = 254 \/ ams_id = 255 THEN ams_id
    ELSE -1

\* lines 535-594: what the slot shows
create_slot(x, y, rgba, is_active) ==
    [x |-> x, y |-> y, rgba |-> rgba, is_empty |-> (rgba = Zero32), is_active |-> is_active]

\* lines 620-628: the container holds the active slot
container_has_active(info, slot_count, tray_now) ==
    \E i \in 0..(slot_count - 1) : get_global_tray_index(info.id, i) = tray_now

\* faulty variant: the slot count is the reported tray count, also when it is 0
create_ams_container_reported_count(info, tray_now) ==
    LET slot_count == info.tray_count
        is_single_slot == (slot_count = 1)
        slot_x_positions == <<-17, 11, 39, 68>>
    IN  [id |-> info.id,
         extruder |-> info.extruder,
         tray_count |-> info.tray_count,
         name |-> get_ams_unit_name(info.id),
         width |-> IF is_single_slot THEN CONTAINER_1SLOT_W ELSE CONTAINER_4SLOT_W,
         container_active |-> container_has_active(info, slot_count, tray_now),
         slots |->
            IF is_single_slot
            THEN << create_slot(-10, -1,
                        IF info.tray_count > 0 THEN info.trays[0].tray_color ELSE Zero32,
                        tray_now = get_global_tray_index(info.id, 0)) >>
            ELSE [i \in 1..Min(slot_count, 4) |->
                    create_slot(slot_x_positions[i], -3,
                        IF i - 1 < info.tray_count THEN info.trays[i - 1].tray_color ELSE Zero32,
                        tray_now = get_global_tray_index(info.id, i - 1))],
         x |-> 0, y |-> 0]

\* the widget built for one unit; its position is set by the caller
create_ams_container(info, tray_now) ==
    LET slot_count == IF info.tray_count > 0 THEN info.tray_count ELSE 1
        is_single_slot == (slot_count = 1)
        slot_x_positions == <<-17, 11, 39, 68>>
    IN  [id |-> info.id,
         extruder |-> info.extruder,
         tray_count |-> info.tray_count,
         name |-> get_ams_unit_name(info.id),
         width |-> IF is_single_slot THEN CONTAINER_1SLOT_W ELSE CONTAINER_4SLOT_W,
         container_active |-> container_has_active(info, slot_count, tray_now),
         slots |->
            IF is_single_slot
            THEN << create_slot(-10, -1,
                        IF info.tray_count > 0 THEN info.trays[0].tray_color ELSE Zero32,
                        tray_now = get_global_tray_index(info.id, 0)) >>
            ELSE [i \in 1..Min(slot_count, 4) |->
                    create_slot(slot_x_positions[i], -3,
                        IF i - 1 < info.tray_count THEN info.trays[i - 1].tray_color ELSE Zero32,
                        tray_now = get_global_tray_index(info.id, i - 1))],
         x |-> 0, y |-> 0]

\* faulty variant: dual-nozzle mode falls back to the legacy tray_now
resolve_active_trays_fallback(tray_now, tray_now_left, tray_now_right, active_extruder) ==
    IF active_extruder >= 0
    THEN IF active_extruder = 0
         THEN [is_dual_nozzle |-> TRUE, left |-> -1,
               right |-> IF tray_now_right >= 0 THEN tray_now_right ELSE tray_now]
         ELSE IF active_extruder = 1
         THEN [is_dual_nozzle |-> TRUE, right |-> -1,
               left |-> IF tray_now_left >= 0 THEN tray_now_left ELSE tray_now]
         ELSE [is_dual_nozzle |-> TRUE, left |-> -1, right |-> -1]
    ELSE [is_dual_nozzle |-> FALSE, left |-> -1, right |-> tray_now]

\* faulty variant: dual-nozzle mode only for active_extruder 0 and 1
resolve_active_trays_dual01(tray_now, tray_now_left, tray_now_right, active_extruder) ==
    IF active_extruder = 0 \/ active_extruder = 1
    THEN IF active_extruder = 0 /\ tray_now_right >= 0
         THEN [is_dual_nozzle |-> TRUE, left |-> -1, right |-> tray_now_right]
         ELSE IF active_extruder = 1 /\ tray_now_left >= 0
         THEN [is_dual_nozzle |-> TRUE, left |-> tray_now_left, right |-> -1]
         ELSE [is_dual_nozzle |-> TRUE, left |-> -1, right |-> -1]
    ELSE [is_dual_nozzle |-> FALSE, left |-> -1, right |-> tray_now]

\* faulty variant: single-nozzle mode shows the per-extruder signal of the right nozzle
resolve_active_trays_single_right(tray_now, tray_now_left, tray_now_right, active_extruder) ==
    IF active_extruder >= 0
    THEN IF active_extruder = 0 /\ tray_now_right >= 0
         THEN [is_dual_nozzle |-> TRUE, left |-> -1, right |-> tray_now_right]
         ELSE IF active_extruder = 1 /\ tray_now_left >= 0
         THEN [is_dual_nozzle |-> TRUE, left |-> tray_now_left, right |-> -1]
         ELSE [is_dual_nozzle |-> TRUE, left |-> -1, right |-> -1]
    ELSE [is_dual_nozzle |-> FALSE, left |-> -1, right |-> tray_now_right]

\* lines 797-815: the active tray of each nozzle
resolve_active_trays(tray_now, tray_now_left, tray_now_right, active_extruder) ==
    LET is_dual_nozzle == (active_extruder >= 0) IN
    IF is_dual_nozzle
    THEN IF active_extruder = 0 /\ tray_now_right >= 0
         THEN [is_dual_nozzle |-> TRUE, left |-> -1, right |-> tray_now_right]
         ELSE IF active_extruder = 1 /\ tray_now_left >= 0
         THEN [is_dual_nozzle |-> TRUE, left |-> tray_now_left, right |-> -1]
         ELSE [is_dual_nozzle |-> TRUE, left |-> -1, right |-> -1]
    ELSE [is_dual_nozzle |-> FALSE, left |-> -1, right |-> tray_now]

\* faulty variant: every unit not assigned to extruder 0 goes to the left nozzle
use_left_side_nonzero(info) == info.extruder # 0

\* line 836: the nozzle side a unit is shown on
use_left_side(info) == info.extruder = 1

NoDisplay ==
    [ran |-> FALSE,
     is_dual_nozzle |-> FALSE, active_tray_left |-> -1, active_tray_right |-> -1,
     left |-> <<>>, right |-> <<>>, left_1slot_x |-> 0, right_1slot_x |-> 0,
     left_4slot_x |-> 0, right_4slot_x |-> 0]

RECURSIVE ams_loop(_, _, _)
\* lines 830-887: one container per unit the accessor returns
ams_loop(i, ams_count, d) ==
    IF ~(i < ams_count /\ i < MAX_AMS_WIDGETS) THEN d
    ELSE LET r == backend_get_ams_unit(0, i)
             info == r.info
             use_left == use_left_side(info)
             parent == IF use_left THEN objects.left_nozzle ELSE objects.rught_nozzle
             active_tray == IF use_left THEN d.active_tray_left ELSE d.active_tray_right
             is_single == info.tray_count <= 1
             step == IF is_single THEN CONTAINER_1SLOT_W + CONTAINER_1SLOT_GAP
                     ELSE CONTAINER_4SLOT_W + CONTAINER_4SLOT_GAP
             y_pos == IF is_single THEN ROW_BOTTOM_Y ELSE ROW_TOP_Y
             x_pos == IF use_left
                      THEN (IF is_single THEN d.left_1slot_x ELSE d.left_4slot_x)
                      ELSE (IF is_single THEN d.right_1slot_x ELSE d.right_4slot_x)
             widget == [create_ams_container(info, active_tray) EXCEPT
                            !.x = x_pos, !.y = y_pos]
         IN  IF r.rc # 0 \/ ~parent THEN ams_loop(i + 1, ams_count, d)
             ELSE ams_loop(i + 1, ams_count,
                    [d EXCEPT
                       !.left = IF use_left /\ Len(@) < MAX_AMS_WIDGETS
                                THEN Append(@, widget) ELSE @,
                       !.right = IF ~use_left /\ Len(@) < MAX_AMS_WIDGETS
                                 THEN Append(@, widget) ELSE @,
                       !.left_1slot_x = IF use_left /\ is_single THEN @ + step ELSE @,
                       !.left_4slot_x = IF use_left /\ ~is_single THEN @ + step ELSE @,
                       !.right_1slot_x = IF ~use_left /\ is_single THEN @ + step ELSE @,
                       !.right_4slot_x = IF ~use_left /\ ~is_single THEN @ + step ELSE @])

ext_r_info ==
    [ZeroUnitInfo EXCEPT !.id = 254, !.humidity = -1, !.temperature = -1,
                         !.extruder = 0, !.tray_count = 1]

ext_l_info ==
    [ZeroUnitInfo EXCEPT !.id = 255, !.humidity = -1, !.temperature = -1,
                         !.extruder = 1, !.tray_count = 1]

\* lines 889-922: the external spool holders
add_ext_slots(d) ==
    LET ext_r == [create_ams_container(ext_r_info, d.active_tray_right) EXCEPT
                     !.x = d.right_1slot_x, !.y = ROW_BOTTOM_Y]
        ext_l == [create_ams_container(ext_l_info, d.active_tray_left) EXCEPT
                     !.x = d.left_1slot_x, !.y = ROW_BOTTOM_Y]
    IN  [d EXCEPT
           !.right = IF objects.rught_nozzle /\ Len(@) < MAX_AMS_WIDGETS
                     THEN Append(@, ext_r) ELSE @,
           !.left = IF objects.left_nozzle /\ Len(@) < MAX_AMS_WIDGETS
                    THEN Append(@, ext_l) ELSE @]

\* lines 784-922 (objects.main exists): the display after the call
update_ams_display ==
    LET in == [ams_count |-> backend_get_ams_count(0),
               tray_now |-> backend_get_tray_now(0),
               tray_now_left |-> backend_get_tray_now_left(0),
               tray_now_right |-> backend_get_tray_now_right(0),
               active_extruder |-> backend_get_active_extruder(0)]
        a == resolve_active_trays(in.tray_now, in.tray_now_left, in.tray_now_right,
                                  in.active_extruder)
        d0 == [ran |-> TRUE, is_dual_nozzle |-> a.is_dual_nozzle,
               active_tray_left |-> a.left, active_tray_right |-> a.right,
               left |-> <<>>, right |-> <<>>,
               left_1slot_x |-> CONTAINER_START_X, right_1slot_x |-> CONTAINER_START_X,
               left_4slot_x |-> CONTAINER_START_X, right_4slot_x |-> CONTAINER_START_X]
    IN  add_ext_slots(ams_loop(0, in.ams_count, d0))

\* update_ams_display as called from update_backend_ui on the main screen,
\* between two polls
UpdateAmsDisplay ==
    /\ pc \in {"init", "done"}
    /\ ~obs.seen
    /\ IF ~objects.main
       THEN UNCHANGED <<ams, ams_static_hidden, display_fresh>>
       ELSE /\ ams_static_hidden' = TRUE
            /\ ams' = update_ams_display
            /\ display_fresh' = TRUE
    /\ UNCHANGED <<ui_vars, call, g_curl, g_state, pc, net, idx, ret, requests, pre, obs, objects>>


(***************************************************************************)
(* ui_backend.c: update_backend_ui, the rate-limited refresh.              *)
(***************************************************************************)
\* ScreensEnum is 1-based and starts with the main screen
SCREEN_ID_MAIN == 1

NoTick ==
    [passed |-> FALSE,    \* the call passed the rate limit
     force |-> FALSE,     \* force_update of the call
     valid |-> FALSE,     \* what the last refresh observed: reachable, >= 1 printer
     after |-> FALSE,     \* what the refresh before the last one observed
     since |-> 0,         \* calls made since the last refresh (or since the start)
     nth |-> 0,           \* the last unforced refresh came with the nth call after
                          \* the refresh before it (0: none yet, or it was forced)
     refreshes |-> 0]     \* refreshes so far: 0, 1, 2 for two or more

NoCall == [fn |-> "none", args |-> <<>>, str |-> <<>>, out |-> <<>>, applied |-> FALSE]

\* after start-up: the statics of ui_backend.c, no function applied yet
InitUi ==
    /\ backend_update_counter = 0
    /\ previous_screen = -1
    /\ needs_data_refresh = TRUE
    /\ tick = NoTick

\* line 78
rate_limit(needs_refresh) == IF needs_refresh THEN 20 ELSE 100

\* faulty variant: the comparison lets one more tick go by
rate_limited_off_by_one(force_update, counter, limit) ==
    IF ~force_update /\ counter + 1 <= limit
    THEN [passed |-> FALSE, counter |-> counter + 1]
    ELSE [passed |-> TRUE, counter |-> 0]

\* faulty variant: a forced refresh leaves the counter where it was
rate_limited_no_reset(force_update, counter, limit) ==
    IF force_update THEN [passed |-> TRUE, counter |-> counter]
    ELSE IF counter + 1 < limit THEN [passed |-> FALSE, counter |-> counter + 1]
    ELSE [passed |-> TRUE, counter |-> 0]

\* faulty variant: a forced call waits for the counter like any other
rate_limited_ignores_force(force_update, counter, limit) ==
    IF counter + 1 < limit
    THEN [passed |-> FALSE, counter |-> counter + 1]
    ELSE [passed |-> TRUE, counter |-> 0]

\* lines 79-82: if (!force_update && ++counter < rate_limit) return; counter = 0;
rate_limited(force_update, counter, limit) ==
    IF ~force_update /\ counter + 1 < limit
    THEN [passed |-> FALSE, counter |-> counter + 1]
    ELSE [passed |-> TRUE, counter |-> 0]

\* line 91: status.state == 2 && status.printer_count > 0
status_valid(status) == status.state = 2 /\ status.printer_count > 0

\* lines 91-93: needs_data_refresh after the refresh has looked at the status
refresh_observes(status, needs_refresh) ==
    IF status_valid(status) THEN FALSE ELSE needs_refresh

\* update_backend_ui (lines 62-107) with currentScreen as its input; the texts of
\* the labels, the clock and the dropdowns are not part of the state
UpdateBackendUi(currentScreen) ==
    /\ pc \in {"init", "done"}
    /\ ~obs.seen
    /\ LET screen_id == currentScreen + 1
           force_update == (screen_id = SCREEN_ID_MAIN /\ previous_screen # screen_id)
           needs1 == IF force_update THEN TRUE ELSE needs_data_refresh
           r == rate_limited(force_update, backend_update_counter, rate_limit(needs1))
           status == backend_get_status
       IN  /\ previous_screen' = screen_id
           /\ backend_update_counter' = r.counter
           /\ IF ~r.passed
              THEN /\ needs_data_refresh' = needs1
                   /\ tick' = [tick EXCEPT !.passed = FALSE, !.force = force_update,
                                           !.since = @ + 1]
                   /\ UNCHANGED <<ams, ams_static_hidden, display_fresh>>
              ELSE /\ needs_data_refresh' = refresh_observes(status, needs1)
                   /\ tick' = [passed |-> TRUE, force |-> force_update,
                               valid |-> status_valid(status), after |-> tick.valid,
                               since |-> 0,
                               nth |-> IF force_update THEN 0 ELSE tick.since + 1,
                               refreshes |-> Min(tick.refreshes + 1, 2)]
                   /\ IF screen_id = SCREEN_ID_MAIN /\ objects.main
                      THEN /\ ams_static_hidden' = TRUE
                           /\ ams' = update_ams_display
                           /\ display_fresh' = TRUE
                      ELSE UNCHANGED <<ams, ams_static_hidden, display_fresh>>
    /\ UNCHANGED <<call, g_curl, g_state, pc, net, idx, ret, requests, pre, obs, objects>>


(***************************************************************************)
(* Backend answers used to drive the poller.                               *)
(***************************************************************************)
RespPrinters == 9    \* printers in the longest printer list
RespUnits == 9       \* AMS units of the printer with the most units
RespTrays == 5       \* trays of the unit with the most trays

Ok200(json) == Outcome("CURLE_OK", 200, TRUE, json)
Http500 == Outcome("CURLE_OK", 500, TRUE, JObj(<< <<"detail", JStr(<<"e", "r", "r">>)>> >>))
Timeout == Outcome("CURLE_OPERATION_TIMEDOUT", 0, FALSE, NullPtr)
Refused == Outcome("CURLE_COULDNT_CONNECT", 0, FALSE, NullPtr)
Garbage == Outcome("CURLE_OK", 200, FALSE, NullPtr)

TwoChars(i) == <<HexChars[((i \div 10) % 10) + 1], HexChars[(i % 10) + 1]>>

TrayJ(ams_id, tray_id, color) ==
    JObj(<< <<"ams_id", JNum(ams_id)>>, <<"tray_id", JNum(tray_id)>>,
            <<"tray_type", JStr(<<"P", "L", "A">>)>>, <<"tray_color", JStr(color)>>,
            <<"remain", JNum(80)>>, <<"nozzle_temp_min", JNum(190)>>,
            <<"nozzle_temp_max", JNum(230)>> >>)

UnitJ(id, extruder, trays) ==
    JObj(<< <<"id", JNum(id)>>, <<"humidity", JNum(3)>>, <<"temperature", JNum(25)>>,
            <<"extruder", extruder>>, <<"trays", JArr(trays)>> >>)

Red == <<"F", "F", "0", "0", "0", "0">>
Blue == <<"#", "0", "0", "0", "0", "f", "f", "8", "0">>

\* one printer, printing, one 4-tray unit, tray 2 red (the end-to-end scenario)
PrinterA1 ==
    JObj(<< <<"serial", JStr(<<"A">>)>>, <<"name", JStr(<<"X", "1">>)>>,
            <<"connected", JTrue>>, <<"gcode_state", JStr(<<"R", "U", "N">>)>>,
            <<"print_progress", JNum(42)>>, <<"layer_num", JNum(3)>>,
            <<"total_layer_num", JNum(10)>>, <<"subtask_name", JStr(<<"j">>)>>,
            <<"mc_remaining_time", JNum(90)>>, <<"stg_cur", JNum(2)>>,
            <<"stg_cur_name", JStr(<<"p">>)>>, <<"tray_now", JNum(2)>>,
            <<"tray_now_left", JNum(1)>>, <<"tray_now_right", JNum(2)>>,
            <<"active_extruder", JNum(0)>>,
            <<"ams_units", JArr(<< UnitJ(0, JNum(0),
                [i \in 1..4 |-> TrayJ(0, i - 1, IF i = 3 THEN Red ELSE Blue)]) >>)>> >>)

\* the same printer, reported with nulls and without most fields
PrinterA2 ==
    JObj(<< <<"serial", JStr(<<"A">>)>>, <<"connected", JFalse>>,
            <<"print_progress", JNull>>, <<"stg_cur", JNull>>, <<"tray_now", JNull>>,
            <<"stg_cur_name", JNull>>,
            <<"ams_units", JArr(<< JObj(<< <<"humidity", JNull>>,
                                           <<"trays", JArr(<< JObj(<<>>) >>)>> >>) >>)>> >>)

\* a printer with more units than the cache holds, the first with too many trays
PrinterB ==
    JObj(<< <<"serial", JStr(<<"B">>)>>, <<"name", JStr(<<"H", "2">>)>>,
            <<"connected", JTrue>>, <<"active_extruder", JNum(1)>>,
            <<"tray_now_left", JNum(4)>>,
            <<"ams_units", JArr([u \in 1..RespUnits |->
                UnitJ(u - 1, JNum(u % 2),
                      [t \in 1..(IF u = 1 THEN RespTrays ELSE 1) |->
                          TrayJ(u - 1, t - 1, Red)])])>> >>)

\* the i-th printer of the long list
PrinterN(i) ==
    JObj(<< <<"serial", JStr(TwoChars(i))>>, <<"connected", JTrue>>,
            <<"tray_now", JNum(i)>> >>)

\* more printers than the cache holds; the first is the one with too many units
LongList == JArr([i \in 1..RespPrinters |-> IF i = 1 THEN PrinterB ELSE PrinterN(i)])

HbOutcomes == {Ok200(JObj(<< <<"ok", JTrue>> >>)), Timeout}

PrinterOutcomes ==
    {Ok200(JArr(<<>>)), Ok200(JArr(<<PrinterA1>>)), Ok200(JArr(<<PrinterA2, PrinterB>>)),
     Ok200(LongList), Http500, Timeout, Refused, Garbage}

StatusOutcomes ==
    {Ok200(JObj(<< <<"connected", JTrue>> >>)), Ok200(JObj(<< <<"connected", JFalse>> >>)),
     Ok200(JObj(<<>>)), Timeout}

(***************************************************************************)
(* The poller with a concurrent reader.                                    *)
(***************************************************************************)
\* the screen objects exist once the main screen is created
AllObjects == [main |-> TRUE, left_nozzle |-> TRUE, rught_nozzle |-> TRUE]
NoObjects == [main |-> FALSE, left_nozzle |-> FALSE, rught_nozzle |-> FALSE]

\* after backend_init: the cache is zeroed; curl_easy_init may have failed
Init ==
    /\ g_curl \in BOOLEAN
    /\ g_state = ZeroState
    /\ pc = "init"
    /\ net = NoNet
    /\ idx = 1
    /\ ret = 0
    /\ requests = <<>>
    /\ pre = View(ZeroState)
    /\ obs = NoObs
    /\ objects = AllObjects
    /\ ams = NoDisplay
    /\ ams_static_hidden = FALSE
    /\ display_fresh = FALSE
    /\ InitUi
    /\ call = NoCall

Next ==
    \/ PollBegin(HbOutcomes, PrinterOutcomes)
    \/ PollParse
    \/ PollStatus(StatusOutcomes)
    \/ ReadState
    \/ ReaderReturn

Spec == Init /\ [][Next]_vars


(***************************************************************************)
(* Properties of the poller and the state cache.                           *)
(***************************************************************************)
Failed(out) == ~IsPtr(fetch_json(out))

\* the snapshot a response decodes to, whatever the cache held before
FreshView(json) ==
    LET n == IF cJSON_IsArray(json) THEN Min(Len(json.child), MaxPrinters) ELSE 0
    IN  [backend_reachable |-> TRUE,
         printer_count |-> n,
         printers |-> [i \in 0..(n - 1) |-> parse_printer(json.child[i + 1], ZeroPrinter)]]

\* the serials of the first eight printers of a response
SerialsOf(json) ==
    IF ~cJSON_IsArray(json) THEN {}
    ELSE {cJSON_GetObjectItem(json.child[i], "serial").valuestring :
             i \in 1..Min(Len(json.child), 8)}

SomeSerials == {<<"A">>, <<"B">>, TwoChars(2), TwoChars(8), TwoChars(9), <<"Z">>, <<>>}

\* a step that is a whole backend_poll whose printer-list fetch failed
FailedPollStep ==
    /\ pc \in {"init", "done"}
    /\ obs' = obs
    /\ requests' # <<>>
    /\ pc' = "done"
    /\ Failed(net'.printers)

\* C1: when the printer-list fetch of backend_poll fails, the poll returns -1,
\* marks the snapshot unreachable, leaves printer_count, every printer record and
\* display_connected as they were, and does not issue the display-status request.
C1_FailedFetchKeepsSnapshot ==
    [][FailedPollStep =>
          /\ ret' = -1
          /\ ~g_state'.backend_reachable
          /\ g_state'.printer_count = g_state.printer_count
          /\ g_state'.printers = g_state.printers
          /\ g_state'.device = g_state.device
          /\ requests' = <<"heartbeat", "printers">>]_vars

\* a failed poll after one that stored printers and a connected display
C1_Witness ==
    /\ pc = "done" /\ ret = -1 /\ g_curl
    /\ Failed(net.printers)
    /\ ~g_state.backend_reachable
    /\ g_state.printer_count >= 1
    /\ g_state.printers[0].serial = <<"A">>
    /\ g_state.device.display_connected

\* C2: after a successful backend_poll the snapshot holds exactly the printers of
\* the latest response (its first 8, in order), decoded as from a zeroed record;
\* a serial absent from the response is not found by serial, and no index at or
\* beyond the new count is returned by backend_get_printer.
C2_SnapshotIsLatestResponse ==
    (pc = "done" /\ ret = 0) =>
        LET json == fetch_json(net.printers) IN
        /\ View(g_state) = FreshView(json)
        /\ \A s \in SomeSerials \ SerialsOf(json) : backend_get_printer_by_serial(s) = -1
        /\ \A s \in SerialsOf(json) :
              /\ backend_get_printer_by_serial(s) >= 0
              /\ g_state.printers[backend_get_printer_by_serial(s)].serial = s
        /\ \A i \in 0..8 : (backend_get_printer(i).rc = 0) <=> (i < FreshView(json).printer_count)

\* the sparse two-printer list replaced a longer list: stale records lie beyond the count
C2_Witness ==
    /\ pc = "done" /\ ret = 0
    /\ fetch_json(net.printers) = JArr(<<PrinterA2, PrinterB>>)
    /\ g_state.printer_count = 2
    /\ g_state.printers[2].serial = TwoChars(3)
    /\ backend_get_printer_by_serial(TwoChars(3)) = -1
    /\ g_state.printers[0].name = <<>>

\* C3: a reader sees either the complete snapshot of before the poll in progress
\* or the complete snapshot that poll produces, never a mix of the two.
C3_ReaderSeesOldOrNew ==
    obs.seen =>
        IF pc = "parse"
        THEN obs.view \in {pre, FreshView(fetch_json(net.printers))}
        ELSE obs.view = View(g_state)

\* C4: printer_count <= 8, ams_unit_count <= 8 and tray_count <= 4 in every state,
\* and a response with more entries keeps the first 8 / 8 / 4 of them.
C4_CountsAreCapped ==
    /\ g_state.printer_count <= 8
    /\ \A i \in 0..7 :
          /\ g_state.printers[i].ams_unit_count <= 8
          /\ \A u \in 0..7 : g_state.printers[i].ams_units[u].tray_count <= 4
    /\ (pc = "done" /\ ret = 0 /\ cJSON_IsArray(fetch_json(net.printers))) =>
          LET list == fetch_json(net.printers).child IN
          /\ g_state.printer_count = Min(Len(list), 8)
          /\ \A i \in 0..(g_state.printer_count - 1) :
                LET p == g_state.printers[i]
                    units == cJSON_GetObjectItem(list[i + 1], "ams_units").child IN
                /\ p.serial = cJSON_GetObjectItem(list[i + 1], "serial").valuestring
                /\ p.ams_unit_count = Min(Len(units), 8)
                /\ \A u \in 0..(p.ams_unit_count - 1) :
                      LET trays == cJSON_GetObjectItem(units[u + 1], "trays").child IN
                      /\ p.ams_units[u].id = cJSON_GetObjectItem(units[u + 1], "id").valueint
                      /\ p.ams_units[u].tray_count = Min(Len(trays), 4)
                      /\ \A t \in 0..(p.ams_units[u].tray_count - 1) :
                            p.ams_units[u].trays[t].tray_id =
                                cJSON_GetObjectItem(trays[t + 1], "tray_id").valueint

\* a response with more than 8 printers, the first with more than 8 units, the
\* first of which has more than 4 trays
C4_Witness ==
    /\ pc = "done" /\ ret = 0
    /\ Len(fetch_json(net.printers).child) > 8
    /\ g_state.printer_count = 8
    /\ Len(cJSON_GetObjectItem(fetch_json(net.printers).child[1], "ams_units").child) > 8
    /\ g_state.printers[0].ams_unit_count = 8
    /\ g_state.printers[0].ams_units[0].tray_count = 4
    /\ g_state.printers[7].serial = TwoChars(8)

\* a step that is the printer-list request of a poll, answered with a non-2xx status
Non2xxPollStep ==
    /\ pc \in {"init", "done"}
    /\ obs' = obs
    /\ requests' # <<>>
    /\ net'.printers.res = "CURLE_OK"
    /\ net'.printers.http \notin 200..299

\* C5: a non-2xx answer to the printer-list request is a transport failure, also
\* with a parsable body: the poll fails, marks the snapshot unreachable and keeps
\* the stored printers.
C5_Non2xxIsTransportFailure ==
    [][Non2xxPollStep =>
          /\ pc' = "done" /\ ret' = -1
          /\ ~g_state'.backend_reachable
          /\ g_state'.printer_count = g_state.printer_count
          /\ g_state'.printers = g_state.printers]_vars

\* the step that ends a poll whose heartbeat or status request failed
DegradedPollEnd ==
    /\ pc = "parse"
    /\ pc' = "done"
    /\ Failed(net'.hb) \/ Failed(net'.status)

\* C6: with the heartbeat or the status request (or both) failing and the printer
\* list fetched, backend_poll returns 0, marks the snapshot reachable and replaces
\* the printer list; a failed status request leaves display_connected as it was.
C6_HeartbeatAndStatusNonFatal ==
    [][DegradedPollEnd =>
          /\ ret' = 0
          /\ g_state'.backend_reachable
          /\ View(g_state') = FreshView(fetch_json(net'.printers))
          /\ requests' = <<"heartbeat", "printers", "status">>
          /\ Failed(net'.status) => g_state' = g_state]_vars

\* both side requests failed, the list was replaced and the display flag kept
C6_Witness ==
    /\ pc = "done" /\ ret = 0
    /\ Failed(net.hb) /\ Failed(net.status) /\ ~Failed(net.printers)
    /\ g_state.backend_reachable
    /\ g_state.printer_count = 1
    /\ g_state.device.display_connected


(***************************************************************************)
(* The poller feeding the AMS display: one printer, every active_extruder  *)
(* with set and unset tray signals, and unit lists on both nozzle sides.   *)
(***************************************************************************)
ExtruderMax == 2     \* largest active_extruder the backend reports

\* a signal in the response; -1 stands for a field the backend reports as null
Sig(v) == IF v = -1 THEN JNull ELSE JNum(v)

FourTrays(id) == [t \in 1..4 |-> TrayJ(id, t - 1, IF t = 3 THEN Red ELSE Blue)]

\* unit A on the left nozzle (trays 0-3), unit B on the right (trays 4-7)
UnitsOwnSide == << UnitJ(0, JNum(1), FourTrays(0)), UnitJ(1, JNum(0), FourTrays(1)) >>

\* unit A on the right, unit B on the left, a 2-tray unit B with extruder 2, a
\* high-temperature unit without extruder and trays, a unit with an unknown id
UnitsMixed ==
    << UnitJ(0, JNum(0), FourTrays(0)), UnitJ(1, JNum(1), FourTrays(1)),
       UnitJ(1, JNum(2), <<TrayJ(1, 0, Red), TrayJ(1, 1, <<>>)>>),
       JObj(<< <<"id", JNum(128)>>, <<"extruder", JNull>> >>),
       UnitJ(5, JNum(1), <<TrayJ(5, 0, Blue)>>) >>

AmsPrinter(ae, tn, tnl, tnr, units) ==
    JObj(<< <<"serial", JStr(<<"A">>)>>, <<"connected", JTrue>>,
            <<"tray_now", Sig(tn)>>, <<"tray_now_left", Sig(tnl)>>,
            <<"tray_now_right", Sig(tnr)>>, <<"active_extruder", Sig(ae)>>,
            <<"ams_units", JArr(units)>> >>)

\* <<tray_now, tray_now_left, tray_now_right>> as reported together
Signals == {<<7, 2, 5>>, <<7, -1, -1>>, <<-1, 2, 5>>, <<7, 2, -1>>}

SignalPrinters ==
    {AmsPrinter(ae, s[1], s[2], s[3], UnitsOwnSide) :
        ae \in (-2)..ExtruderMax, s \in Signals}
    \cup {AmsPrinter(0, 9, 2, 5, UnitsOwnSide)}

UnitPrinters ==
    {AmsPrinter(1, -1, 2, 5, UnitsMixed), AmsPrinter(0, -1, 5, 2, UnitsMixed),
     AmsPrinter(1, -1, 5, 2, UnitsMixed),
     AmsPrinter(0, 9, 2, 5, UnitsMixed), AmsPrinter(-1, 7, -1, -1, UnitsMixed),
     AmsPrinter(1, 64, 64, -1, UnitsMixed), AmsPrinter(0, 64, -1, 64, UnitsMixed),
     JObj(<< <<"serial", JStr(<<"A">>)>>, <<"tray_now", JNum(254)>> >>)}

AmsPrinterOutcomes ==
    {Ok200(JArr(<<p>>)) : p \in SignalPrinters \cup UnitPrinters}
    \cup {Ok200(JArr(<<>>)), Timeout}

AmsHbOutcomes == {Ok200(JObj(<<>>))}
AmsStatusOutcomes == {Ok200(JObj(<< <<"connected", JTrue>> >>))}

InitAms ==
    /\ g_curl = TRUE
    /\ g_state = ZeroState
    /\ pc = "init"
    /\ net = NoNet
    /\ idx = 1
    /\ ret = 0
    /\ requests = <<>>
    /\ pre = View(ZeroState)
    /\ obs = NoObs
    /\ objects \in {AllObjects, NoObjects}
    /\ ams = NoDisplay
    /\ ams_static_hidden = FALSE
    /\ display_fresh = FALSE
    /\ InitUi
    /\ call = NoCall

NextAms ==
    \/ BackendPoll(AmsHbOutcomes, AmsPrinterOutcomes, AmsStatusOutcomes)
    \/ UpdateAmsDisplay

SpecAms == InitAms /\ [][NextAms]_vars

(***************************************************************************)
(* The main loop: backend_poll and the tick of the user interface, with    *)
(* the user moving between the main screen and the other screens.          *)
(***************************************************************************)
MaxScreen == 1     \* currentScreen takes the values 0 (the main screen)..MaxScreen

Screens == 0..MaxScreen

UiHbOutcomes == {Ok200(JObj(<<>>))}
UiPrinterOutcomes == {Ok200(JArr(<<>>)), Ok200(JArr(<<PrinterA1>>)), Timeout}
UiStatusOutcomes == {Ok200(JObj(<< <<"connected", JTrue>> >>))}

InitLoop ==
    /\ g_curl = TRUE
    /\ g_state = ZeroState
    /\ pc = "init"
    /\ net = NoNet
    /\ idx = 1
    /\ ret = 0
    /\ requests = <<>>
    /\ pre = View(ZeroState)
    /\ obs = NoObs
    /\ objects = AllObjects
    /\ ams = NoDisplay
    /\ ams_static_hidden = FALSE
    /\ display_fresh = FALSE
    /\ InitUi
    /\ call = NoCall

NextLoop ==
    \/ BackendPoll(UiHbOutcomes, UiPrinterOutcomes, UiStatusOutcomes)
    \/ \E currentScreen \in Screens : UpdateBackendUi(currentScreen)

SpecUi == InitLoop /\ [][NextLoop]_vars

(***************************************************************************)
(* Properties of the active-tray resolution.                               *)
(***************************************************************************)
\* the display shows the cache as it is now
Shown == ams.ran /\ display_fresh

SlotCount(w) == IF w.tray_count > 0 THEN w.tray_count ELSE 1

\* C7: in dual-nozzle mode only the nozzle named by active_extruder has an active
\* tray, and only when its own signal is >= 0 (tray_now_right for 0, tray_now_left
\* for 1); the other side has none, tray_now is not used, and at most one side
\* has an active tray.
C7_DualNozzleResolution ==
    Shown =>
        LET ae == backend_get_active_extruder(0)
            tnl == backend_get_tray_now_left(0)
            tnr == backend_get_tray_now_right(0) IN
        /\ ae \in {0, 1} =>
              /\ ams.active_tray_right = (IF ae = 0 /\ tnr >= 0 THEN tnr ELSE -1)
              /\ ams.active_tray_left = (IF ae = 1 /\ tnl >= 0 THEN tnl ELSE -1)
        /\ ams.active_tray_left = -1 \/ ams.active_tray_right = -1

\* active_extruder=0, tray_now_right=5, tray_now_left=2, tray_now=9 shown as right=5
C7_Witness ==
    /\ Shown
    /\ backend_get_active_extruder(0) = 0 /\ backend_get_tray_now_right(0) = 5
    /\ backend_get_tray_now_left(0) = 2 /\ backend_get_tray_now(0) = 9
    /\ ams.active_tray_right = 5 /\ ams.active_tray_left = -1

\* C8 as claimed: dual-nozzle mode iff active_extruder is 0 or 1; every other value
\* is resolved as single-nozzle, with tray_now on the right side.
C8_DualIffZeroOrOne ==
    Shown =>
        LET ae == backend_get_active_extruder(0) IN
        /\ ams.is_dual_nozzle <=> ae \in {0, 1}
        /\ ae \notin {0, 1} =>
              /\ ams.active_tray_right = backend_get_tray_now(0)
              /\ ams.active_tray_left = -1

\* C8 amended: dual-nozzle mode iff active_extruder >= 0; a negative value is
\* resolved as single-nozzle, with tray_now on the right side; a value of 2 or
\* more is resolved as dual-nozzle with no active tray on either side.
C8_DualIffNonNegative ==
    Shown =>
        LET ae == backend_get_active_extruder(0) IN
        /\ ams.is_dual_nozzle <=> ae >= 0
        /\ ae < 0 =>
              /\ ams.active_tray_right = backend_get_tray_now(0)
              /\ ams.active_tray_left = -1
        /\ ae >= 2 => (ams.active_tray_right = -1 /\ ams.active_tray_left = -1)

\* active_extruder = 2 with tray_now = 7: dual-nozzle, nothing active
C8_Witness ==
    /\ Shown
    /\ backend_get_active_extruder(0) = 2 /\ backend_get_tray_now(0) = 7
    /\ ams.is_dual_nozzle
    /\ ams.active_tray_right = -1 /\ ams.active_tray_left = -1

\* C9: when the printer is not resolved in dual-nozzle mode, the right-side active
\* tray is tray_now and the left side has none, whatever tray_now_left and
\* tray_now_right are.
C9_SingleNozzleResolution ==
    (Shown /\ ~ams.is_dual_nozzle) =>
        /\ ams.active_tray_right = backend_get_tray_now(0)
        /\ ams.active_tray_left = -1

\* active_extruder=-1, tray_now=7, both per-extruder signals set: right=7, left none
C9_Witness ==
    /\ Shown /\ ~ams.is_dual_nozzle
    /\ backend_get_active_extruder(0) = -1 /\ backend_get_tray_now(0) = 7
    /\ backend_get_tray_now_left(0) = 2 /\ backend_get_tray_now_right(0) = 5
    /\ ams.active_tray_right = 7 /\ ams.active_tray_left = -1

\* the units of printer 0 that are shown on the given side, in order
RECURSIVE UnitsOnSide(_, _)
UnitsOnSide(i, left) ==
    IF i >= backend_get_ams_count(0) THEN <<>>
    ELSE LET u == g_state.printers[0].ams_units[i] IN
         (IF (u.extruder = 1) = left THEN <<u.id>> ELSE <<>>) \o UnitsOnSide(i + 1, left)

WidgetIds(ws) == [k \in 1..Len(ws) |-> ws[k].id]

\* C10: a unit is marked as containing the active tray iff one of its slots'
\* global tray index equals the active index of its own nozzle side, the side
\* being left iff the unit's extruder field is 1; the other side's index never
\* marks it.
C10_ContainerActiveOwnSide ==
    Shown =>
        /\ objects.left_nozzle => WidgetIds(ams.left) = UnitsOnSide(0, TRUE) \o <<255>>
        /\ objects.rught_nozzle => WidgetIds(ams.right) = UnitsOnSide(0, FALSE) \o <<254>>
        /\ \A k \in 1..Len(ams.left) :
              /\ ams.left[k].extruder = 1
              /\ ams.left[k].container_active <=>
                    \E i \in 0..(SlotCount(ams.left[k]) - 1) :
                        get_global_tray_index(ams.left[k].id, i) = ams.active_tray_left
        /\ \A k \in 1..Len(ams.right) :
              /\ ams.right[k].extruder # 1
              /\ ams.right[k].container_active <=>
                    \E i \in 0..(SlotCount(ams.right[k]) - 1) :
                        get_global_tray_index(ams.right[k].id, i) = ams.active_tray_right

\* active_extruder 1 with left tray 5: unit 1 on the left (trays 4-7) is marked;
\* the other unit 1, which is shown on the right and also holds tray 5, is not,
\* and neither is unit 0
C10_Witness ==
    /\ Shown
    /\ ams.active_tray_left = 5 /\ ams.active_tray_right = -1
    /\ Len(ams.left) = 3 /\ Len(ams.right) = 4
    /\ ams.left[1].id = 1 /\ ams.left[1].container_active
    /\ ams.right[2].id = 1 /\ ams.right[2].extruder = 2 /\ ~ams.right[2].container_active
    /\ ams.right[1].id = 0 /\ ~ams.right[1].container_active

\* no container and no slot among the widgets ws is highlighted
NoHighlight(ws) ==
    \A k \in 1..Len(ws) :
        /\ ~ws[k].container_active
        /\ \A i \in 1..Len(ws[k].slots) : ~ws[k].slots[i].is_active

\* C11: whenever the resolved active tray of a nozzle side is absent (-1), no unit
\* and no slot shown on that side is highlighted as active, whatever the unit ids.
C11_AbsentActiveNoHighlight ==
    Shown =>
        /\ ams.active_tray_left = -1 => NoHighlight(ams.left)
        /\ ams.active_tray_right = -1 => NoHighlight(ams.right)


(***************************************************************************)
(* The pure functions, applied to inputs drawn from bounded sets.          *)
(***************************************************************************)
MaxColorLen == 9     \* longest color string of arbitrary length tried

\* unit ids in and around the three ranges the display knows
UnitIds == ((-1)..5) \cup (126..137) \cup (253..256)

\* hex strings of the two accepted lengths, and strings of every length
Hex6 == [1..6 -> {"0", "9", "a", "F"}]
Hex8 == [1..8 -> {"0", "b", "E"}]
AnyLen == UNION {[1..n -> {"1", "F"}] : n \in 0..MaxColorLen}
NonHex == [1..6 -> {"F", "g"}] \cup [1..8 -> {"7", "z"}]

ColorStrings ==
    LET plain == Hex6 \cup Hex8 \cup AnyLen \cup NonHex
    IN  plain \cup {<<"#">> \o str : str \in plain}

\* a function and the input it is about to be applied to: integer arguments or
\* a string
Pending(fn, args, str) ==
    [fn |-> fn, args |-> args, str |-> str, out |-> <<>>, applied |-> FALSE]

InitFn ==
    /\ g_curl = TRUE
    /\ g_state = ZeroState
    /\ pc = "init"
    /\ net = NoNet
    /\ idx = 1
    /\ ret = 0
    /\ requests = <<>>
    /\ pre = View(ZeroState)
    /\ obs = NoObs
    /\ objects = AllObjects
    /\ ams = NoDisplay
    /\ ams_static_hidden = FALSE
    /\ display_fresh = FALSE
    /\ InitUi
    /\ call \in {Pending("get_global_tray_index", <<ams_id, tray_idx>>, <<>>) :
                    ams_id \in UnitIds, tray_idx \in 0..(MaxTrays - 1)}
                \cup {Pending("parse_hex_color_rgba", <<>>, str) : str \in ColorStrings}

\* get_global_tray_index(ams_id, tray_idx) returns
CallGlobalTrayIndex ==
    /\ call.fn = "get_global_tray_index" /\ ~call.applied
    /\ call' = [call EXCEPT !.out = <<get_global_tray_index(call.args[1], call.args[2])>>,
                            !.applied = TRUE]
    /\ UNCHANGED <<ui_vars, g_curl, g_state, pc, net, idx, ret, requests, pre, obs,
                   objects, ams, ams_static_hidden, display_fresh>>

\* parse_hex_color_rgba(str) returns
CallParseHexColor ==
    /\ call.fn = "parse_hex_color_rgba" /\ ~call.applied
    /\ call' = [call EXCEPT !.out = parse_hex_color_rgba(call.str), !.applied = TRUE]
    /\ UNCHANGED <<ui_vars, g_curl, g_state, pc, net, idx, ret, requests, pre, obs,
                   objects, ams, ams_static_hidden, display_fresh>>

NextFn == CallGlobalTrayIndex \/ CallParseHexColor

SpecFn == InitFn /\ [][NextFn]_vars

(***************************************************************************)
(* Properties of the global tray index.                                    *)
(***************************************************************************)
\* C12: get_global_tray_index returns id*4+slot for unit ids 0-3 with slot 0-3,
\* 64+(id-128) for unit ids 128-135 whatever the slot, and the id itself for the
\* ids 254 and 255.
C12_GlobalTrayIndexValues ==
    (call.fn = "get_global_tray_index" /\ call.applied) =>
        LET id == call.args[1]
            slot == call.args[2]
            index == call.out[1] IN
        /\ id \in 0..3 => index = id * 4 + slot
        /\ id \in 128..135 => index = 64 + (id - 128)
        /\ id \in {254, 255} => index = id

\* unit 3, slot 3 has index 15
C12_Witness ==
    call.fn = "get_global_tray_index" /\ call.args = <<3, 3>> /\ call.out = <<15>>

\* the trays the display can show: <<unit id, slot>>
ValidTrays == ((0..3) \X (0..3)) \cup ((128..135) \X {0}) \cup ({254, 255} \X {0})

\* C13: the global tray index is injective over the valid trays (ids 0-3 with
\* slots 0-3, ids 128-135 with their single slot, the external ids 254 and 255),
\* and the indices of the three groups lie in 0-15, 64-71 and 254-255.
C13_GlobalTrayIndexInjective ==
    (call.fn = "get_global_tray_index" /\ call.applied /\ call.args \in ValidTrays) =>
        LET id == call.args[1]
            index == call.out[1] IN
        /\ \A t \in ValidTrays \ {call.args} : get_global_tray_index(t[1], t[2]) # index
        /\ id \in 0..3 => index \in 0..15
        /\ id \in 128..135 => index \in 64..71
        /\ id \in {254, 255} => index \in 254..255

\* the last high-temperature unit: index 71, which no other valid tray has
C13_Witness ==
    call.fn = "get_global_tray_index" /\ call.args = <<135, 0>> /\ call.out = <<71>>

(***************************************************************************)
(* Properties of the color decoder.  A 32-bit value is written as its      *)
(* eight hex digits, most significant first: 0xRRGGBBAA is                  *)
(* <<R, R, G, G, B, B, A, A>>.                                              *)
(***************************************************************************)
LowerDigits ==
    <<"0", "1", "2", "3", "4", "5", "6", "7", "8", "9", "a", "b", "c", "d", "e", "f">>
UpperDigits ==
    <<"0", "1", "2", "3", "4", "5", "6", "7", "8", "9", "A", "B", "C", "D", "E", "F">>

IsHexChar(c) == \E v \in 1..16 : LowerDigits[v] = c \/ UpperDigits[v] = c
Nibble(c) == (CHOOSE v \in 1..16 : LowerDigits[v] = c \/ UpperDigits[v] = c) - 1

\* the string without its optional leading '#'
StripHash(str) == IF Len(str) > 0 /\ str[1] = "#" THEN Tail(str) ELSE str

IsHexString(hex) == \A i \in 1..Len(hex) : IsHexChar(hex[i])

\* C14: decoding a color string that is empty, whose length after an optional
\* leading '#' is neither 6 nor 8, or that holds a non-hex character yields 0.
C14_InvalidColorIsZero ==
    (call.fn = "parse_hex_color_rgba" /\ call.applied) =>
        LET hex == StripHash(call.str) IN
        (Len(call.str) = 0 \/ Len(hex) \notin {6, 8} \/ ~IsHexString(hex))
            => call.out = Zero32

\* C15: decoding six hex digits RRGGBB, with or without a leading '#' and in
\* either letter case, yields 0xRRGGBBFF; decoding eight hex digits RRGGBBAA
\* yields 0xRRGGBBAA.
C15_HexColorDecoding ==
    (call.fn = "parse_hex_color_rgba" /\ call.applied) =>
        LET hex == StripHash(call.str) IN
        /\ (Len(hex) = 6 /\ IsHexString(hex)) =>
              call.out = [i \in 1..8 |-> IF i <= 6 THEN Nibble(hex[i]) ELSE 15]
        /\ (Len(hex) = 8 /\ IsHexString(hex)) =>
              call.out = [i \in 1..8 |-> Nibble(hex[i])]

\* "#FF009a" decodes to 0xFF009AFF
C15_Witness ==
    /\ call.fn = "parse_hex_color_rgba" /\ call.applied
    /\ call.str = <<"#", "F", "F", "0", "0", "9", "a">>
    /\ call.out = <<15, 15, 0, 0, 9, 10, 15, 15>>

(***************************************************************************)
(* Properties of the field decoder and of the accessors.                   *)
(***************************************************************************)
\* the key is absent from the object or its value is null
Missing(object, key) ==
    ~IsPtr(cJSON_GetObjectItem(object, key)) \/ cJSON_IsNull(cJSON_GetObjectItem(object, key))

\* <<key in the response, field of the record, documented default>>
PrinterNumbers ==
    {<<"print_progress", "print_progress", 0>>, <<"layer_num", "layer_num", 0>>,
     <<"total_layer_num", "total_layer_num", 0>>,
     <<"mc_remaining_time", "remaining_time", -1>>, <<"stg_cur", "stg_cur", -1>>,
     <<"tray_now", "tray_now", -1>>, <<"tray_now_left", "tray_now_left", -1>>,
     <<"tray_now_right", "tray_now_right", -1>>,
     <<"active_extruder", "active_extruder", -1>>}
UnitNumbers ==
    {<<"id", "id", -1>>, <<"humidity", "humidity", -1>>,
     <<"temperature", "temperature", -1>>, <<"extruder", "extruder", -1>>}
TrayNumbers ==
    {<<"ams_id", "ams_id", -1>>, <<"tray_id", "tray_id", -1>>, <<"remain", "remain", -1>>,
     <<"nozzle_temp_min", "nozzle_temp_min", -1>>,
     <<"nozzle_temp_max", "nozzle_temp_max", -1>>}
PrinterStrings == {"serial", "name", "gcode_state", "subtask_name", "stg_cur_name"}
TrayStrings == {"tray_type", "tray_color"}

\* the record holds the default of every listed field the object is missing, and
\* the reported value of every listed number the object has
DecodedWithDefaults(object, record, numbers, strings) ==
    /\ \A n \in numbers :
          record[n[2]] = IF Missing(object, n[1]) THEN n[3]
                         ELSE cJSON_GetObjectItem(object, n[1]).valueint
    /\ \A key \in strings : Missing(object, key) => record[key] = <<>>

\* C16: every field of a printer, unit or tray record that is absent or null in
\* the response is decoded to its documented default (-1 for numbers, 0 for the
\* print progress and the layer counters, the empty string, false), and the
\* fields that are present are still decoded.
C16_DefaultsOnMissing ==
    (pc = "done" /\ ret = 0 /\ cJSON_IsArray(fetch_json(net.printers))) =>
        LET list == fetch_json(net.printers).child IN
        \A i \in 0..(g_state.printer_count - 1) :
            LET p == g_state.printers[i]
                units == cJSON_GetObjectItem(list[i + 1], "ams_units").child IN
            /\ DecodedWithDefaults(list[i + 1], p, PrinterNumbers, PrinterStrings)
            /\ Missing(list[i + 1], "connected") => ~p.connected
            /\ \A u \in 0..(p.ams_unit_count - 1) :
                  LET trays == cJSON_GetObjectItem(units[u + 1], "trays").child IN
                  /\ DecodedWithDefaults(units[u + 1], p.ams_units[u], UnitNumbers, {})
                  /\ \A t \in 0..(p.ams_units[u].tray_count - 1) :
                        DecodedWithDefaults(trays[t + 1], p.ams_units[u].trays[t],
                                            TrayNumbers, TrayStrings)

\* indexes a caller may pass: in range, stale, and outside the arrays
PrinterIndexes == (-2)..(MaxPrinters + 1)
UnitIndexes == (-2)..(MaxAmsUnits + 1)

NotFound(result) == result.rc = -1 /\ ~result.written

\* C17: an accessor called with a printer index outside [0, printer_count), or
\* a unit index outside [0, ams_unit_count) of its printer, reports not-found
\* (backend_get_printer and backend_get_ams_unit -1, backend_get_ams_count 0,
\* the tray_now and active_extruder getters -1) whatever the record behind that
\* index holds, and leaves the output structure unwritten.
C17_OutOfRangeNotFound ==
    /\ \A i \in PrinterIndexes :
          (i < 0 \/ i >= g_state.printer_count) =>
              /\ NotFound(backend_get_printer(i))
              /\ backend_get_ams_count(i) = 0
              /\ backend_get_tray_now(i) = -1
              /\ backend_get_tray_now_left(i) = -1
              /\ backend_get_tray_now_right(i) = -1
              /\ backend_get_active_extruder(i) = -1
              /\ \A a \in UnitIndexes : NotFound(backend_get_ams_unit(i, a))
    /\ \A i \in 0..(g_state.printer_count - 1) :
          \A a \in UnitIndexes :
              (a < 0 \/ a >= g_state.printers[i].ams_unit_count) =>
                  NotFound(backend_get_ams_unit(i, a))

\* a record left behind by a longer list lies just outside the valid range, and a
\* valid printer has fewer units than its record has room for
C17_Witness ==
    /\ pc = "done"
    /\ g_state.printer_count \in 1..(MaxPrinters - 1)
    /\ g_state.printers[g_state.printer_count].tray_now >= 0
    /\ g_state.printers[g_state.printer_count].serial # <<>>
    /\ backend_get_tray_now(g_state.printer_count) = -1
    /\ NotFound(backend_get_printer(g_state.printer_count))
    /\ \E i \in 0..(g_state.printer_count - 1) :
          /\ g_state.printers[i].ams_unit_count \in 1..(MaxAmsUnits - 1)
          /\ NotFound(backend_get_ams_unit(i, g_state.printers[i].ams_unit_count))
          /\ ~NotFound(backend_get_ams_unit(i, 0))

(***************************************************************************)
(* Properties of the rate-limited refresh.                                 *)
(***************************************************************************)
\* C18: a refresh that observes an unreachable backend or a snapshot with zero
\* printers leaves the controller in the fast cadence (threshold 20), also when
\* it was in the slow cadence before and the screen has not changed.
C18_UnreachableBackToFast ==
    (tick.refreshes >= 1 /\ ~tick.valid) =>
        (needs_data_refresh /\ rate_limit(needs_data_refresh) = 20)

\* C19: from the start update_backend_ui passes the rate limit no later than its
\* 20th call; after a refresh that observed a reachable backend with at least one
\* printer, the next refresh comes with the 100th following call, neither earlier
\* nor later, unless a navigation to the main screen forces it (nth = 0).
C19_Cadence ==
    /\ tick.refreshes = 0 => tick.since < 20
    /\ (tick.refreshes >= 1 /\ tick.valid) => tick.since < 100
    /\ (tick.refreshes >= 2 /\ tick.after) => tick.nth \in {0, 100}

\* the refresh of the 100th call after a refresh that saw a printer
C19_Witness ==
    /\ tick.passed
    /\ ~tick.force
    /\ tick.after
    /\ tick.nth = 100
    /\ backend_update_counter = 0

\* C20: every call that does not trigger the refresh adds one to the counter; a
\* call triggers the refresh exactly when that addition reaches the threshold of
\* the active cadence or the call is forced; every triggering call leaves the
\* counter at zero; so the counter is below the active threshold between calls.
\* (Every call of update_backend_ui changes tick.)
C20_CounterDiscipline ==
    /\ [](backend_update_counter >= 0
          /\ backend_update_counter < rate_limit(needs_data_refresh))
    /\ [][tick' # tick =>
            LET limit == rate_limit(needs_data_refresh \/ tick'.force) IN
            /\ tick'.passed <=> (tick'.force \/ backend_update_counter + 1 = limit)
            /\ tick'.passed => backend_update_counter' = 0
            /\ ~tick'.passed => backend_update_counter' = backend_update_counter + 1]_vars

\* the 99th call in a row that was held back in the slow cadence
C20_Witness ==
    /\ ~tick.passed
    /\ ~needs_data_refresh
    /\ tick.since = 99
    /\ backend_update_counter = 99

\* C21: a call on the main screen whose previous call was on another screen (or
\* that is the first call) is forced and triggers the refresh on that very call,
\* whatever the counter and the cadence; a call that stays on the main screen is
\* not forced and passes only when the counter reaches the threshold.
C21_NavigationForcesRefresh ==
    [][tick' # tick =>
          /\ tick'.force <=> (previous_screen' = SCREEN_ID_MAIN
                              /\ previous_screen # SCREEN_ID_MAIN)
          /\ tick'.force => (tick'.passed /\ backend_update_counter' = 0)
          /\ (previous_screen = SCREEN_ID_MAIN /\ previous_screen' = SCREEN_ID_MAIN) =>
                (tick'.passed <=>
                    backend_update_counter + 1 = rate_limit(needs_data_refresh))]_vars

\* a forced refresh on coming back to the main screen in the slow cadence
C21_Witness ==
    /\ tick.passed
    /\ tick.force
    /\ tick.after
    /\ tick.refreshes = 2
    /\ previous_screen = SCREEN_ID_MAIN
    /\ backend_update_counter = 0

(***************************************************************************)
(* Further properties of the poller and the accessors.                     *)
(***************************************************************************)
\* the snapshot a second backend_poll with the same three answers would store
PolledAgain == backend_poll(g_state, net.hb, net.printers, net.status).state

\* C22: after a successful backend_poll, polling once more with identical
\* responses stores the same snapshot: the reachable flag, printer_count and
\* every field of every printer, unit and tray within the counts are unchanged,
\* whatever was stored before the first poll.
C22_PollIdempotent ==
    (pc = "done" /\ ret = 0) => View(PolledAgain) = View(g_state)

\* a successful poll of two printers over the records of a longer list
C22_Witness ==
    /\ pc = "done"
    /\ ret = 0
    /\ g_state.printer_count = 2
    /\ g_state.printers[2].serial # <<>>
    /\ g_state.printers[0].ams_unit_count > 0
    /\ View(PolledAgain) = View(g_state)

(***************************************************************************)
(* The display of unit lists: single-slot units without trays, up to more  *)
(* units than the display tracks, units that share an index.               *)
(***************************************************************************)
\* high-temperature and external units that report no tray, on both sides
UnitsNoTray ==
    << JObj(<< <<"id", JNum(128)>>, <<"extruder", JNum(0)>> >>),
       UnitJ(135, JNum(1), <<>>), UnitJ(254, JNum(0), <<>>), UnitJ(255, JNum(1), <<>>) >>

\* n one-tray units, all on the right, all on the left, or alternating
Sides == {"right", "left", "both"}
ManyUnits(n, side) ==
    [i \in 1..n |->
        UnitJ((i - 1) % 4,
              JNum(IF side = "left" THEN 1 ELSE IF side = "right" THEN 0 ELSE i % 2),
              <<TrayJ((i - 1) % 4, 0, Red)>>)]

\* a high-temperature unit that reports two trays; the same unit reported twice
UnitsHtTwoTrays == << UnitJ(128, JNum(0), <<TrayJ(128, 0, Red), TrayJ(128, 1, Blue)>>) >>
UnitsSameId == << UnitJ(0, JNum(0), FourTrays(0)), UnitJ(0, JNum(0), FourTrays(0)) >>

ListPrinters ==
    {AmsPrinter(-1, 254, -1, -1, ManyUnits(n, side)) : n \in 0..RespUnits, side \in Sides}
    \cup {AmsPrinter(-1, 64, -1, -1, UnitsNoTray), AmsPrinter(0, -1, 71, 64, UnitsNoTray),
          AmsPrinter(1, -1, 71, 64, UnitsNoTray), AmsPrinter(0, -1, -1, 3, UnitsNoTray),
          AmsPrinter(-1, 64, -1, -1, UnitsHtTwoTrays), AmsPrinter(-1, 2, -1, -1, UnitsHtTwoTrays),
          AmsPrinter(-1, 2, -1, -1, UnitsSameId)}

ListPrinterOutcomes == {Ok200(JArr(<<p>>)) : p \in ListPrinters}

NextUnits ==
    \/ BackendPoll(AmsHbOutcomes, ListPrinterOutcomes, AmsStatusOutcomes)
    \/ UpdateAmsDisplay

SpecUnits == InitLoop /\ [][NextUnits]_vars

\* the widgets of both sides, each with the active tray index of its side
SideWidgets(left) == IF left THEN ams.left ELSE ams.right
SideActive(left) == IF left THEN ams.active_tray_left ELSE ams.active_tray_right
SingleSlotIds == (128..135) \cup {254, 255}

\* C23: a single-slot unit (id 128-135, 254 or 255) that reports no tray is shown
\* with exactly one slot; the slot is empty (color 0) and is highlighted iff the
\* unit's index equals the active tray index of its side.
C23_SingleSlotWithoutTray ==
    ams.ran =>
        \A left \in BOOLEAN :
            \A k \in 1..Len(SideWidgets(left)) :
                LET w == SideWidgets(left)[k] IN
                (w.id \in SingleSlotIds /\ w.tray_count = 0) =>
                    /\ Len(w.slots) = 1
                    /\ w.width = CONTAINER_1SLOT_W
                    /\ w.slots[1].rgba = Zero32
                    /\ w.slots[1].is_empty
                    /\ w.slots[1].is_active <=>
                          (get_global_tray_index(w.id, 0) = SideActive(left))
                    /\ w.container_active <=> w.slots[1].is_active

\* unit 128 without trays is the active one on the right, unit 135 without trays
\* is shown on the left and is not
C23_Witness ==
    /\ ams.ran
    /\ ams.active_tray_right = 64
    /\ \E k \in 1..Len(ams.right) :
          /\ ams.right[k].id = 128 /\ ams.right[k].tray_count = 0
          /\ ams.right[k].slots[1].is_active
    /\ \E k \in 1..Len(ams.left) :
          /\ ams.left[k].id = 135 /\ ams.left[k].tray_count = 0
          /\ ~ams.left[k].slots[1].is_active

\* the last widget of a side is the external-spool container with the given id
EndsWithExt(ws, id) ==
    /\ Len(ws) > 0
    /\ ws[Len(ws)].id = id
    /\ ws[Len(ws)].tray_count = 1
    /\ ws[Len(ws)].y = ROW_BOTTOM_Y

\* C24: every run of update_ams_display with both nozzle parents present creates
\* Ext-R (id 254) on the right side and Ext-L (id 255) on the left side, whatever
\* the number of units the printer reports and whatever side they are shown on.
C24_ExtSlotsAlwaysCreated ==
    (ams.ran /\ objects.left_nozzle /\ objects.rught_nozzle) =>
        /\ EndsWithExt(ams.right, 254)
        /\ EndsWithExt(ams.left, 255)

\* C25: in every state the printer count reported by backend_get_status equals
\* the number of indexes for which backend_get_printer succeeds, also after a
\* failed poll that follows a successful one.
C25_StatusCountMatchesAccessor ==
    backend_get_status.printer_count =
        Cardinality({i \in PrinterIndexes : backend_get_printer(i).rc = 0})

\* the slots of the widgets ws that are highlighted, as <<widget, slot>>
ActiveSlots(ws) ==
    {<<k, i>> \in (1..MAX_AMS_WIDGETS) \X (1..4) :
        k <= Len(ws) /\ i <= Len(ws[k].slots) /\ ws[k].slots[i].is_active}

\* C26: in a run of update_ams_display at most one slot of the left side and at
\* most one slot of the right side is highlighted as the active tray, for every
\* list of units the backend reports.
C26_OneActiveSlotPerSide ==
    ams.ran =>
        /\ Cardinality(ActiveSlots(ams.left)) <= 1
        /\ Cardinality(ActiveSlots(ams.right)) <= 1

\* C27: backend_get_ams_unit returns -1 for the temperature and for the humidity
\* of a unit whose response had that field absent or null: the unknown sentinel
\* is preserved.
C27_UnknownSentinelPreserved ==
    (pc = "done" /\ ret = 0 /\ cJSON_IsArray(fetch_json(net.printers))) =>
        LET list == fetch_json(net.printers).child IN
        \A i \in 0..(g_state.printer_count - 1) :
            LET units == cJSON_GetObjectItem(list[i + 1], "ams_units").child IN
            \A u \in 0..(g_state.printers[i].ams_unit_count - 1) :
                /\ backend_get_ams_unit(i, u).rc = 0
                /\ Missing(units[u + 1], "humidity") =>
                      backend_get_ams_unit(i, u).info.humidity = -1
                /\ Missing(units[u + 1], "temperature") =>
                      backend_get_ams_unit(i, u).info.temperature = -1

====
